---- MODULE Spec2Model ----
(***************************************************************************)
(* A model of sidecat (src/sidecat.py): the selection resolver             *)
(* (CustomTAction), the concurrent execution of the selected jobs by main  *)
(* over sigrok_cli, and the pipes of one job.                              *)
(*                                                                         *)
(*   SpecResolve  the resolution of the -t input against a loaded catalog  *)
(*   Spec         the thread pool of main running sigrok_cli jobs          *)
(*   SpecPipe     one sigrok_cli job with its two subprocesses and pipes   *)
(*   SpecArgs     parse_args over the options of the command line          *)
(*   SpecMerge    dict_merge_preserve_source_order on pairs of trees       *)
(*   SpecVerify   main after the pool in test mode: the report and         *)
(*                compare_with_reference                                   *)
(*   SpecRef      main after the pool in reference mode: the rewrite of    *)
(*                the catalog                                              *)
(*   SpecRun      a whole reference run: the pool, then the rewrite        *)
(*   SpecPump     the pump loop of two concurrent jobs: the fingerprint    *)
(*                of each and the progress counter they share              *)
(***************************************************************************)
EXTENDS Integers, Sequences, FiniteSets, TLC

VARIABLES
    \* ---- selection (CustomLAction, CustomTAction, main up to the pool)
    test_vectors,     \* the loaded catalog, an ordered dict
    values,           \* the arguments of -t, each a sequence of tokens
    jsonschema,       \* whether the optional jsonschema module imports
    tests_selected,   \* the resolved list of [decoder, sample, test]
    vi,               \* index of the value the 'for value in values' loop is at
    rpc,              \* where the resolution stands
    rerr,             \* the error parser.error was called with, or NoError
    \* ---- the thread pool of main
    jobs,             \* the job list main submits (tests_selected)
    concurrency,      \* args.concurrency
    sevenzip,         \* args.sevenzip_path != 'none'
    fut,              \* per job: the state of its future
    jcode,            \* per job: the exit code its SystemExit carries
    mpc,              \* where main stands
    yielded,          \* the futures as_completed has yielded
    output_files,     \* the merged results
    intr,             \* whether KeyboardInterrupt was raised in main
    quiet,            \* globals.quiet
    reported,         \* the error messages printed so far: [by, code]
    exitCode,         \* the exit code of the process, or NoExit
    \* ---- one job: sigrok_cli, its subprocesses and their pipes
    ppc,              \* where sigrok_cli stands
    pcode,            \* the exit code sigrok_cli called parser.error with
    buf,              \* the units of the chunk read that are not yet written
    sig,              \* the sigrok-cli subprocess: none, running, exit0, exitN
    sigScript,        \* the writes sigrok-cli still has to do, in order
    z7,               \* the 7z subprocess: none, running, exit0, exitN
    zScript,          \* the reads and writes 7z still has to do, in order
    inClosed,         \* whether the stdin of 7z was closed by sigrok_cli
    tmp,              \* whether <output_path>.tmp exists
    pipe,             \* the units held by each pipe
    \* ---- the command line (QuietArgumentParser.parse_args)
    argv,             \* the options of the command line, in order
    ai,               \* index of the option argparse is at
    apc,              \* where parse_args stands
    seen,             \* the options of the -t/-r group seen so far
    resolved_with,    \* the catalog CustomTAction resolved against
    \* ---- a call of dict_merge_preserve_source_order
    m_source,         \* its first argument
    m_add,            \* its second argument
    m_result,         \* what it returned
    m_again,          \* what merging m_add into m_result returned
    mgpc,             \* where the caller stands
    \* ---- compare_with_reference
    test_failures,    \* the discrepancies appended so far
    total_tests,      \* the tests compared so far
    vpc,              \* where main stands after the pool
    \* ---- the rewrite of the catalog in reference mode
    catalog_file,     \* what the path of the catalog holds
    temp_file,        \* what the path of the catalog + '.tmp' holds
    writable,         \* os.access(file_to_update, os.W_OK)
    reference_archive, \* what reference.7z holds: the old or the new outputs
    \* ---- the pump loop of sigrok_cli and the progress counter it shares
    stream,           \* per job: the bytes sigrok-cli emits on its stdout
    nread,            \* per job: how many of them were read
    l_size,           \* per job: the local size
    checksum,         \* per job: the local checksum
    hash_blake2b,     \* per job: the bytes the blake2b object was updated with
    hash_sha256,      \* per job: the bytes the sha256 object was updated with
    f_sink,           \* per job: the bytes written to f, the sink
    progress_treshold, \* per job: the local progress_treshold
    lpc,              \* per job: where sigrok_cli stands
    g_size,           \* globals.size
    g_counter,        \* globals.counter
    g_progress,       \* globals.progress
    args_progress,    \* args.progress
    printed           \* the progress lines printed: [percent, counter]

selVars == <<test_vectors, values, jsonschema, tests_selected, vi, rpc, rerr>>
poolVars == <<concurrency, fut, jcode, mpc, yielded, output_files, intr, quiet>>
pipeVars == <<ppc, pcode, buf, sig, sigScript, z7, zScript, inClosed, tmp, pipe>>
argVars == <<argv, ai, apc, seen, resolved_with>>
mergeVars == <<m_source, m_add, m_result, m_again, mgpc>>
verVars == <<test_failures, total_tests, vpc>>
refVars == <<catalog_file, temp_file, writable, reference_archive>>
pumpVars == <<stream, nread, l_size, checksum, hash_blake2b, hash_sha256, f_sink,
              progress_treshold, lpc, g_size, g_counter, g_progress,
              args_progress, printed>>
extVars == <<argVars, mergeVars, verVars, refVars, pumpVars>>
vars == <<selVars, jobs, sevenzip, poolVars, pipeVars, reported, exitCode, extVars>>

----------------------------------------------------------------------------
(* Exit codes (class ExitCode). *)
success == 0
test_fail == 1
commandline == 2
user_ctrl_c == 3
internal == 4
sigrok_fail == 5
\* no exit yet
NoExit == 0 - 1
\* an uncaught exception ends the interpreter with a traceback and status 1
traceback == 1

----------------------------------------------------------------------------
(* Ordered dicts.  A Python dict keeps insertion order: it is a sequence of *)
(* entries with distinct keys.  An entry says whether its value is a dict.  *)
D(k, items) == [key |-> k, dict |-> TRUE, val |-> items]
L(k, v) == [key |-> k, dict |-> FALSE, val |-> <<v>>]

Keys(d) == [i \in 1..Len(d) |-> d[i].key]
KeySet(d) == {d[i].key : i \in 1..Len(d)}
Has(d, k) == k \in KeySet(d)
IndexOf(d, k) == CHOOSE i \in 1..Len(d) : d[i].key = k
Get(d, k) == d[IndexOf(d, k)].val
IsDictAt(d, k) == d[IndexOf(d, k)].dict

RECURSIVE Concat(_)
Concat(ss) == IF Len(ss) = 0 THEN <<>> ELSE Head(ss) \o Concat(Tail(ss))

NotPath(k) == k /= "path"
\* [k for k in d if k != 'path']
NonPathKeys(d) == SelectSeq(Keys(d), NotPath)

----------------------------------------------------------------------------
(* Catalogs the model loads.  Each satisfies the schema (lines 23-89): a    *)
(* sample holds an optional string 'path' and tests; a test is a dict.      *)
Reference == <<L("size", 1), L("crc", "c"), L("blake2b", "b"), L("sha256", "s")>>
NoReference == <<L("desc", "x")>>

CatalogA ==
    << D("d1", << D("s1", << L("path", "dir"), D("t1", Reference), D("t2", Reference) >>),
                  D("s2", << D("t1", Reference) >>) >>),
       D("d2", << D("s1", << D("t2", NoReference) >>) >>) >>
CatalogB == << D("d1", << D("s1", << D("t1", Reference) >>) >>) >>
CatalogC == << D("d1", << D("s1", << L("path", "dir") >>) >>) >>
CatalogEmpty == << >>
Catalogs == {CatalogA, CatalogB, CatalogC, CatalogEmpty}

(* tests_list_all of CustomLAction: every (decoder, sample, test) in the    *)
(* order of the catalog, the key 'path' of a sample skipped.                *)
TestsOfSample(decoder, sample, tests) ==
    [i \in 1..Len(NonPathKeys(tests)) |-> <<decoder, sample, NonPathKeys(tests)[i]>>]
TestsOfDecoder(decoder, samples) ==
    Concat([j \in 1..Len(samples) |->
              TestsOfSample(decoder, samples[j].key, samples[j].val)])
TestsListAllWithPath(tv) ==
    Concat([i \in 1..Len(tv) |->
              Concat([j \in 1..Len(tv[i].val) |->
                        [k \in 1..Len(tv[i].val[j].val) |->
                           <<tv[i].key, tv[i].val[j].key, tv[i].val[j].val[k].key>>]])])
tests_list_all(tv) ==
    Concat([i \in 1..Len(tv) |-> TestsOfDecoder(tv[i].key, tv[i].val)])

----------------------------------------------------------------------------
(* A value of -t is a string; the model keeps it as its sequence of tokens, *)
(* a token being the separator ":" or a name.                               *)
Colon == ":"
None == "<None>"

RECURSIVE StripLeft(_)
StripLeft(s) == IF Len(s) > 0 /\ Head(s) = Colon THEN StripLeft(Tail(s)) ELSE s
RECURSIVE StripRight(_)
StripRight(s) ==
    IF Len(s) > 0 /\ s[Len(s)] = Colon THEN StripRight(SubSeq(s, 1, Len(s) - 1)) ELSE s
\* value.strip(':')
Strip(s) == StripRight(StripLeft(s))

\* s.split(':'): the fields between the separators, "" for an empty one
RECURSIVE SplitFrom(_, _)
SplitFrom(s, field) ==
    IF Len(s) = 0 THEN <<field>>
    ELSE IF Head(s) = Colon THEN <<field>> \o SplitFrom(Tail(s), "")
    ELSE SplitFrom(Tail(s), Head(s))
Split(s) == SplitFrom(s, "")

\* line 289
Parts(value) == Split(Strip(value))

NoError == [kind |-> "none", listed |-> <<>>]
Error(kind, listed) == [kind |-> kind, listed |-> listed]

(* One iteration of 'for value in values' (lines 285-345): the error it     *)
(* ends in, if any, and the triples it appended to tests_selected before.   *)
FirstBadTest(tests, testdict) ==
    IF \E i \in 1..Len(tests) : ~Has(testdict, tests[i])
    THEN CHOOSE i \in 1..Len(tests) :
            /\ ~Has(testdict, tests[i])
            /\ \A j \in 1..(i - 1) : Has(testdict, tests[j])
    ELSE 0

ResolveValue(tv, value) ==
    LET parts == Parts(value)
        decoder == parts[1]
        sample == IF Len(parts) >= 2 THEN parts[2] ELSE None
        tests == IF Len(parts) >= 3 THEN SubSeq(parts, 3, Len(parts)) ELSE <<>>
    IN  IF ~Has(tv, decoder)
        THEN [err |-> Error("decoder", Keys(tv)), sel |-> <<>>]
        ELSE LET available_samples == NonPathKeys(Get(tv, decoder))
             IN  IF sample \in {None, ""}
                 THEN [err |-> Error("sample_required", available_samples), sel |-> <<>>]
                 ELSE IF sample = "path"
                 THEN [err |-> Error("sample_illegal", available_samples), sel |-> <<>>]
                 ELSE IF ~Has(Get(tv, decoder), sample)
                 THEN [err |-> Error("sample_invalid", available_samples), sel |-> <<>>]
                 ELSE LET testdict == Get(Get(tv, decoder), sample)
                          bad == FirstBadTest(tests, testdict)
                          good == IF bad = 0 THEN Len(tests) ELSE bad - 1
                      IN  IF Len(tests) = 0
                          THEN [err |-> Error("test_required", NonPathKeys(testdict)),
                                sel |-> <<>>]
                          ELSE [err |-> IF bad = 0 THEN NoError
                                        ELSE Error("test_invalid", NonPathKeys(testdict)),
                                sel |-> [i \in 1..good |-> <<decoder, sample, tests[i]>>]]

----------------------------------------------------------------------------
(* The -t inputs the model draws: lists of expressions of colon-separated   *)
(* fields, MaxFields fields in all, the list ['all'] and the empty list.    *)
MaxFields == 6
DecoderFields == {"d1", "d2"}
SampleFields == {"s1", "s2", "path", ""}
TestFields == {"t1", "t2", "path"}

FieldAt(n) == IF n = 1 THEN DecoderFields ELSE IF n = 2 THEN SampleFields ELSE TestFields
RECURSIVE FieldSeqs(_)
FieldSeqs(n) ==
    IF n = 0 THEN {<<>>}
    ELSE {Append(fs, f) : fs \in FieldSeqs(n - 1), f \in FieldAt(n)}

\* ':'.join(fields), as tokens: an empty field leaves no token
RECURSIVE Join(_)
Join(fs) ==
    IF Len(fs) = 0 THEN <<>>
    ELSE (IF Head(fs) = "" THEN <<>> ELSE <<Head(fs)>>)
         \o (IF Len(fs) > 1 THEN <<Colon>> ELSE <<>>) \o Join(Tail(fs))

RECURSIVE ValueLists(_)
ValueLists(budget) ==
    {<<>>} \cup
    UNION {{<<Join(fs)>> \o rest : fs \in FieldSeqs(n), rest \in ValueLists(budget - n)}
           : n \in 1..budget}
Inputs == ValueLists(MaxFields) \cup {<< <<"all">> >>}

----------------------------------------------------------------------------
(* parser.error (lines 197-202): the message is printed and SystemExit      *)
(* raised.  In the main thread the exception ends the process.              *)
MainThread == 0
Printed(by, code) == IF quiet THEN reported ELSE Append(reported, [by |-> by, code |-> code])
MainError(code) ==
    /\ reported' = Printed(MainThread, code)
    /\ exitCode' = code

SelError(kind, listed) ==
    /\ rerr' = Error(kind, listed)
    /\ rpc' = "exit"
    /\ MainError(commandline)

\* the decoder:sample:tests lines the empty -t lists (lines 276-281)
Combinations(tv) ==
    Concat([i \in 1..Len(tv) |->
              [j \in 1..Len(tv[i].val) |->
                 <<tv[i].key, tv[i].val[j].key>> \o NonPathKeys(tv[i].val[j].val)]])

(* CustomTAction.__call__, lines 263-282 and 347. *)
TNotLoaded ==
    /\ rpc = "start"
    /\ Len(test_vectors) = 0
    /\ tests_selected' = <<>>
    /\ SelError("not_loaded", <<>>)
    /\ UNCHANGED <<test_vectors, values, jsonschema, vi, jobs, sevenzip, extVars, poolVars, pipeVars>>

TAll ==
    /\ rpc = "start"
    /\ Len(test_vectors) /= 0
    /\ values = << <<"all">> >>
    /\ tests_selected' = tests_list_all(test_vectors)
    /\ rpc' = "resolved"
    /\ UNCHANGED <<test_vectors, values, jsonschema, vi, rerr, jobs, sevenzip, extVars,
                   poolVars, pipeVars, reported, exitCode>>

TEmpty ==
    /\ rpc = "start"
    /\ Len(test_vectors) /= 0
    /\ values = <<>>
    /\ tests_selected' = <<>>
    /\ SelError("list", Combinations(test_vectors))
    /\ UNCHANGED <<test_vectors, values, jsonschema, vi, jobs, sevenzip, extVars, poolVars, pipeVars>>

TBegin ==
    /\ rpc = "start"
    /\ Len(test_vectors) /= 0
    /\ values /= << <<"all">> >>
    /\ values /= <<>>
    /\ tests_selected' = <<>>
    /\ rpc' = "loop"
    /\ UNCHANGED <<test_vectors, values, jsonschema, vi, rerr, jobs, sevenzip, extVars,
                   poolVars, pipeVars, reported, exitCode>>

(* One iteration of the loop of lines 285-345. *)
TValue ==
    /\ rpc = "loop"
    /\ vi <= Len(values)
    /\ LET r == ResolveValue(test_vectors, values[vi])
       IN  /\ tests_selected' = tests_selected \o r.sel
           /\ IF r.err = NoError
              THEN /\ vi' = vi + 1
                   /\ UNCHANGED <<rpc, rerr, reported, exitCode>>
              ELSE /\ SelError(r.err.kind, r.err.listed)
                   /\ UNCHANGED vi
    /\ UNCHANGED <<test_vectors, values, jsonschema, jobs, sevenzip, extVars, poolVars, pipeVars>>

TDone ==
    /\ rpc = "loop"
    /\ vi > Len(values)
    /\ rpc' = "resolved"
    /\ UNCHANGED <<test_vectors, values, jsonschema, tests_selected, vi, rerr, jobs,
                   sevenzip, extVars, poolVars, pipeVars, reported, exitCode>>

(* main, lines 639-659, for args.test: the selected tests are validated to  *)
(* carry a reference when jsonschema imports, and their sizes are summed.   *)
RequiredFields == {"size", "crc", "blake2b", "sha256"}
HasReference(tv, t) ==
    \/ ~IsDictAt(Get(Get(tv, t[1]), t[2]), t[3])
    \/ RequiredFields \subseteq KeySet(Get(Get(Get(tv, t[1]), t[2]), t[3]))
Selected == {tests_selected[i] : i \in 1..Len(tests_selected)}

MainPrepare ==
    /\ rpc = "resolved"
    /\ IF jsonschema /\ \E t \in Selected : ~HasReference(test_vectors, t)
       THEN /\ rpc' = "exit"
            /\ MainError(internal)
       ELSE IF \E t \in Selected : ~IsDictAt(Get(Get(test_vectors, t[1]), t[2]), t[3])
       \* line 657: a str has no .get, the AttributeError is not caught
       THEN /\ rpc' = "exit"
            /\ exitCode' = traceback
            /\ UNCHANGED reported
       ELSE /\ rpc' = "ready"
            /\ UNCHANGED <<reported, exitCode>>
    /\ UNCHANGED <<test_vectors, values, jsonschema, tests_selected, vi, rerr, jobs,
                   sevenzip, extVars, poolVars, pipeVars>>

(* main, lines 696-700: every selected test is submitted to the pool. *)
MainSubmit ==
    /\ rpc = "ready"
    /\ jobs' = tests_selected
    /\ rpc' = "submitted"
    /\ UNCHANGED <<test_vectors, values, jsonschema, tests_selected, vi, rerr,
                   sevenzip, extVars, poolVars, pipeVars, reported, exitCode>>

PoolIdle ==
    /\ concurrency = 1
    /\ sevenzip = FALSE
    /\ fut = <<>>
    /\ jcode = <<>>
    /\ mpc = "parse"
    /\ yielded = {}
    /\ output_files = <<>>
    /\ intr = FALSE
    /\ quiet = FALSE

NoPipes == [stdout |-> 0, stderr |-> 0, stdin |-> 0, zout |-> 0, zerr |-> 0]
JobIdle ==
    /\ ppc = "none"
    /\ pcode = NoExit
    /\ buf = 0
    /\ sig = "none"
    /\ sigScript = <<>>
    /\ z7 = "none"
    /\ zScript = <<>>
    /\ inClosed = FALSE
    /\ tmp = FALSE
    /\ pipe = NoPipes

\* the parts of the program a specification does not run
ArgsIdle ==
    /\ argv = <<>>
    /\ ai = 1
    /\ apc = "none"
    /\ seen = {}
    /\ resolved_with = <<>>
MergeIdle ==
    /\ m_source = <<>>
    /\ m_add = <<>>
    /\ m_result = <<>>
    /\ m_again = <<>>
    /\ mgpc = "none"
VerifyIdle ==
    /\ test_failures = <<>>
    /\ total_tests = 0
    /\ vpc = "none"
\* what a path of the file system holds
Complete(data) == [state |-> "complete", data |-> data]
Partial == [state |-> "partial", data |-> <<>>]
Missing == [state |-> "missing", data |-> <<>>]
RefIdle ==
    /\ catalog_file = Missing
    /\ temp_file = Missing
    /\ writable = TRUE
    /\ reference_archive = "old"
PumpIdle ==
    /\ stream = <<>>
    /\ nread = <<>>
    /\ l_size = <<>>
    /\ checksum = <<>>
    /\ hash_blake2b = <<>>
    /\ hash_sha256 = <<>>
    /\ f_sink = <<>>
    /\ progress_treshold = <<>>
    /\ lpc = <<>>
    /\ g_size = 0
    /\ g_counter = 0
    /\ g_progress = 0
    /\ args_progress = 0
    /\ printed = <<>>
ExtIdle == ArgsIdle /\ MergeIdle /\ VerifyIdle /\ RefIdle /\ PumpIdle

InitResolve ==
    /\ test_vectors \in Catalogs
    /\ values \in Inputs
    /\ jsonschema \in BOOLEAN
    /\ tests_selected = <<>>
    /\ vi = 1
    /\ rpc = "start"
    /\ rerr = NoError
    /\ jobs = <<>>
    /\ PoolIdle
    /\ JobIdle
    /\ reported = <<>>
    /\ exitCode = NoExit
    /\ ExtIdle

NextResolve ==
    \/ TNotLoaded
    \/ TAll
    \/ TEmpty
    \/ TBegin
    \/ TValue
    \/ TDone
    \/ MainPrepare
    \/ MainSubmit

SpecResolve == InitResolve /\ [][NextResolve]_vars

----------------------------------------------------------------------------
(* The catalog as the claims read it: a TestCase is a key of a sample other *)
(* than 'path', under a sample other than 'path' of a decoder.              *)
IsTestCase(tv, t) ==
    /\ Has(tv, t[1])
    /\ t[2] /= "path"
    /\ Has(Get(tv, t[1]), t[2])
    /\ t[3] /= "path"
    /\ Has(Get(Get(tv, t[1]), t[2]), t[3])

AllTestCases(tv) ==
    UNION {UNION {{<<tv[i].key, tv[i].val[j].key, tv[i].val[j].val[k].key>>
                     : k \in {n \in 1..Len(tv[i].val[j].val) :
                                 tv[i].val[j].val[n].key /= "path"}}
                  : j \in 1..Len(tv[i].val)}
           : i \in 1..Len(tv)}

\* the triples an expression names: its decoder and sample with each test
NamedTriples(value) ==
    {<<Parts(value)[1], Parts(value)[2], Parts(value)[k]>> : k \in 3..Len(Parts(value))}
ValidExpression(tv, value) ==
    /\ Len(Parts(value)) >= 3
    /\ \A t \in NamedTriples(value) : IsTestCase(tv, t)
ExpressionsGiven == values /= <<>> /\ values /= << <<"all">> >>
Resolved == rpc \in {"resolved", "ready", "submitted"}
Distinct(seq) == \A i, j \in 1..Len(seq) : i /= j => seq[i] /= seq[j]

\* the position of a triple in the catalog
CatalogPos(tv, t) ==
    <<IndexOf(tv, t[1]), IndexOf(Get(tv, t[1]), t[2]),
      IndexOf(Get(Get(tv, t[1]), t[2]), t[3])>>
LexLess(a, b) ==
    \/ a[1] < b[1]
    \/ a[1] = b[1] /\ a[2] < b[2]
    \/ a[1] = b[1] /\ a[2] = b[2] /\ a[3] < b[3]

(* C2: for valid expressions naming existing catalog entries, the resolved  *)
(* job list holds exactly the named triples, each distinct triple once,     *)
(* also when a triple is named several times.                               *)
C2_NamedTriplesOnce ==
    (/\ Resolved
     /\ ExpressionsGiven
     /\ \A i \in 1..Len(values) : ValidExpression(test_vectors, values[i]))
    => /\ Selected = UNION {NamedTriples(values[i]) : i \in 1..Len(values)}
       /\ Distinct(tests_selected)

(* C3: an invalid expression in the input ends the resolution in a usage    *)
(* error that lists the alternatives of the failing level (decoder, then    *)
(* sample, then tests); no job list is produced and no job is started.      *)
FirstInvalid ==
    CHOOSE i \in 1..Len(values) :
        /\ ~ValidExpression(test_vectors, values[i])
        /\ \A j \in 1..(i - 1) : ValidExpression(test_vectors, values[j])
ExpectedUsageError(tv, value) ==
    LET p == Parts(value)
    IN  IF ~Has(tv, p[1]) THEN Error("decoder", Keys(tv))
        ELSE IF Len(p) < 2 \/ p[2] = ""
        THEN Error("sample_required", NonPathKeys(Get(tv, p[1])))
        ELSE IF p[2] = "path" THEN Error("sample_illegal", NonPathKeys(Get(tv, p[1])))
        ELSE IF ~Has(Get(tv, p[1]), p[2])
        THEN Error("sample_invalid", NonPathKeys(Get(tv, p[1])))
        ELSE IF Len(p) < 3
        THEN Error("test_required", NonPathKeys(Get(Get(tv, p[1]), p[2])))
        ELSE Error("test_invalid", NonPathKeys(Get(Get(tv, p[1]), p[2])))
C3_InvalidSelectionFails ==
    (/\ Len(test_vectors) /= 0
     /\ ExpressionsGiven
     /\ \E i \in 1..Len(values) : ~ValidExpression(test_vectors, values[i]))
    => /\ jobs = <<>>
       /\ \/ rpc \in {"start", "loop"}
          \/ /\ rpc = "exit"
             /\ exitCode = commandline
             /\ rerr = ExpectedUsageError(test_vectors, values[FirstInvalid])

(* C4: every triple the resolver puts in the job list is a TestCase of the  *)
(* catalog, its test never the 'path' entry of the sample.                  *)
C4_SelectedAreTestCases ==
    \A i \in 1..Len(tests_selected) : IsTestCase(test_vectors, tests_selected[i])

(* C5: 'all' resolves to every triple of the catalog, in catalog order,     *)
(* with no entry for 'path' and no triple twice.                            *)
C5_AllInCatalogOrder ==
    (rpc /= "start" /\ values = << <<"all">> >> /\ Len(test_vectors) /= 0)
    => /\ Selected = AllTestCases(test_vectors)
       /\ \A i \in 1..Len(tests_selected) : tests_selected[i][3] /= "path"
       /\ \A i, j \in 1..Len(tests_selected) :
             i < j => LexLess(CatalogPos(test_vectors, tests_selected[i]),
                              CatalogPos(test_vectors, tests_selected[j]))
C5_Witness ==
    /\ Resolved
    /\ values = << <<"all">> >>
    /\ Len(test_vectors) > 1
    /\ \E i \in 1..Len(test_vectors) : \E j \in 1..Len(test_vectors[i].val) :
          Has(test_vectors[i].val[j].val, "path")
    /\ Len(tests_selected) > 2

----------------------------------------------------------------------------
(* dict_merge_preserve_source_order (lines 571-585). *)
\* for comparison, the merge of dict.update: an entry of add_this replaces
\* the entry of source whole
MergeShallow(source, add_this) ==
    LET merged(e) == IF Has(add_this, e.key) THEN add_this[IndexOf(add_this, e.key)] ELSE e
        NotInSource(a) == ~Has(source, a.key)
    IN  [i \in 1..Len(source) |-> merged(source[i])] \o SelectSeq(add_this, NotInSource)

\* for comparison, a merge on lists of entries without the test of line 583
MergeAppendAll(source, add_this) ==
    LET merged(e) == IF Has(add_this, e.key) THEN add_this[IndexOf(add_this, e.key)] ELSE e
    IN  [i \in 1..Len(source) |-> merged(source[i])] \o add_this

\* for comparison, a merge in which an entry of source is never replaced
MergeBaseWins(source, add_this) ==
    LET NotInSource(a) == ~Has(source, a.key)
    IN  source \o SelectSeq(add_this, NotInSource)

RECURSIVE dict_merge_preserve_source_order(_, _)
dict_merge_preserve_source_order(source, add_this) ==
    LET merged(e) ==
            IF Has(add_this, e.key)
            THEN LET a == add_this[IndexOf(add_this, e.key)]
                 IN  IF e.dict /\ a.dict
                     THEN D(e.key, dict_merge_preserve_source_order(e.val, a.val))
                     ELSE a
            ELSE e
        NotInSource(a) == ~Has(source, a.key)
    IN  [i \in 1..Len(source) |-> merged(source[i])] \o SelectSeq(add_this, NotInSource)

\* the dict sigrok_cli returns (lines 446-457)
JobResult(t, fingerprint) == << D(t[1], << D(t[2], << D(t[3], fingerprint) >>) >>) >>

----------------------------------------------------------------------------
(* The thread pool of main (lines 694-713) over sigrok_cli (lines 349-457). *)
MaxJobs == 4
MaxConcurrency == 3

JobIds == 1..Len(jobs)
Running == {i \in JobIds : fut[i] = "running"}
Queued == {i \in JobIds : fut[i] = "queued"}
Failed == {i \in JobIds : fut[i] = "failed"}
Finished == {i \in JobIds : fut[i] \in {"ok", "failed"}}
Submitted == {i \in JobIds : fut[i] /= "unsubmitted"}

\* the job list of a run of n jobs
JobList(n) == [i \in 1..n |-> tests_list_all(CatalogA)[((i - 1) % 4) + 1]]

(* A worker thread takes the oldest queued work item; the pool has at most  *)
(* max_workers threads, each running one item at a time (line 696).         *)
CanStartUnbounded(i) ==
    /\ fut[i] = "queued"
    /\ \A j \in Queued : i <= j
CanStart(i) ==
    /\ fut[i] = "queued"
    /\ \A j \in Queued : i <= j
    /\ Cardinality(Running) < concurrency

JobStart(i) ==
    /\ CanStart(i)
    /\ fut' = [fut EXCEPT ![i] = "running"]
    /\ UNCHANGED <<selVars, jobs, sevenzip, extVars, concurrency, jcode, mpc, yielded,
                   output_files, intr, quiet, pipeVars, reported, exitCode>>

(* parser.error in a worker (lines 197-202): the message is printed and the *)
(* SystemExit, which 'except Exception' (line 443) does not catch, becomes  *)
(* the exception of the job's future.                                       *)
JobError(i, code) ==
    /\ reported' = Printed(i, code)
    /\ fut' = [fut EXCEPT ![i] = "failed"]
    /\ jcode' = [jcode EXCEPT ![i] = code]

\* the codes sigrok_cli calls parser.error with (lines 432, 441, 444)
JobErrorCodes == {sigrok_fail, internal}

\* sigrok_cli returns its dict (lines 446-457)
JobReturns(i) ==
    /\ fut[i] = "running"
    /\ fut' = [fut EXCEPT ![i] = "ok"]
    /\ UNCHANGED <<selVars, jobs, sevenzip, extVars, concurrency, jcode, mpc, yielded,
                   output_files, intr, quiet, pipeVars, reported, exitCode>>

\* sigrok_cli ends in parser.error (lines 432, 441, 444)
JobFails(i) ==
    /\ fut[i] = "running"
    /\ \E code \in JobErrorCodes : JobError(i, code)
    /\ UNCHANGED <<selVars, jobs, sevenzip, extVars, concurrency, mpc, yielded,
                   output_files, intr, quiet, pipeVars, exitCode>>

\* line 696: ThreadPoolExecutor raises ValueError for max_workers <= 0, which
\* nothing catches
PoolInvalid ==
    /\ mpc = "submit"
    /\ concurrency <= 0
    /\ exitCode' = traceback
    /\ mpc' = "done"
    /\ UNCHANGED <<selVars, jobs, sevenzip, extVars, concurrency, fut, jcode, yielded,
                   output_files, intr, quiet, pipeVars, reported>>

\* lines 697-700: one executor.submit of the list comprehension
Submit ==
    /\ mpc = "submit"
    /\ concurrency > 0
    /\ IF Submitted /= JobIds
       THEN /\ fut' = [fut EXCEPT ![Cardinality(Submitted) + 1] = "queued"]
            /\ UNCHANGED mpc
       ELSE /\ mpc' = "collect"
            /\ UNCHANGED fut
    /\ UNCHANGED <<selVars, jobs, sevenzip, extVars, concurrency, jcode, yielded,
                   output_files, intr, quiet, pipeVars, reported, exitCode>>

\* lines 702-705: as_completed yields a finished future; result() returns the
\* dict, which is merged, or raises the SystemExit of the job, which neither
\* handler of lines 707-712 catches: the with block is left
Fingerprint == Reference
Collect(i) ==
    /\ mpc = "collect"
    /\ i \in Finished \ yielded
    /\ yielded' = yielded \cup {i}
    /\ IF fut[i] = "ok"
       THEN /\ output_files' = dict_merge_preserve_source_order(
                                   output_files, JobResult(jobs[i], Fingerprint))
            /\ UNCHANGED <<mpc, exitCode>>
       ELSE /\ mpc' = "exit_wait"
            /\ exitCode' = jcode[i]
            /\ UNCHANGED output_files
    /\ UNCHANGED <<selVars, jobs, sevenzip, extVars, concurrency, fut, jcode, intr, quiet,
                   pipeVars, reported>>

\* line 713: every future was yielded, the with block ends
CollectDone ==
    /\ mpc = "collect"
    /\ yielded = JobIds
    /\ mpc' = "post"
    /\ UNCHANGED <<selVars, jobs, sevenzip, extVars, concurrency, fut, jcode, yielded,
                   output_files, intr, quiet, pipeVars, reported, exitCode>>

\* line 707: KeyboardInterrupt is raised in the main thread inside the try
Interrupt ==
    /\ mpc = "collect"
    /\ intr' = TRUE
    /\ mpc' = "interrupted"
    /\ UNCHANGED <<selVars, jobs, sevenzip, extVars, concurrency, fut, jcode, yielded,
                   output_files, quiet, pipeVars, reported, exitCode>>

\* lines 708-709: executor.shutdown() returns when every worker thread has
\* ended, which is when the queue is drained; then parser.error
InterruptExit ==
    /\ mpc = "interrupted"
    /\ Running = {} /\ Queued = {}
    /\ MainError(user_ctrl_c)
    /\ mpc' = "done"
    /\ UNCHANGED <<selVars, jobs, sevenzip, extVars, concurrency, fut, jcode, yielded,
                   output_files, intr, quiet, pipeVars>>

\* ThreadPoolExecutor.__exit__ on the way out of line 696: shutdown(wait=True)
ExitWait ==
    /\ mpc = "exit_wait"
    /\ Running = {} /\ Queued = {}
    /\ mpc' = "done"
    /\ UNCHANGED <<selVars, jobs, sevenzip, extVars, concurrency, fut, jcode, yielded,
                   output_files, intr, quiet, pipeVars, reported, exitCode>>

Init ==
    /\ test_vectors = CatalogA
    /\ values = << <<"all">> >>
    /\ jsonschema = FALSE
    /\ tests_selected = <<>>
    /\ vi = 1
    /\ rpc = "submitted"
    /\ rerr = NoError
    /\ \E n \in 0..MaxJobs : jobs = JobList(n)
    /\ concurrency \in 0..MaxConcurrency
    /\ sevenzip = TRUE
    /\ fut = [i \in 1..Len(jobs) |-> "unsubmitted"]
    /\ jcode = [i \in 1..Len(jobs) |-> NoExit]
    /\ mpc = "submit"
    /\ yielded = {}
    /\ output_files = <<>>
    /\ intr = FALSE
    /\ quiet \in BOOLEAN
    /\ JobIdle
    /\ reported = <<>>
    /\ exitCode = NoExit
    /\ ExtIdle

Next ==
    \/ PoolInvalid
    \/ Submit
    \/ \E i \in JobIds : JobStart(i)
    \/ \E i \in JobIds : JobReturns(i)
    \/ \E i \in JobIds : JobFails(i)
    \/ \E i \in JobIds : Collect(i)
    \/ CollectDone
    \/ Interrupt
    \/ InterruptExit
    \/ ExitWait

Spec == Init /\ [][Next]_vars

----------------------------------------------------------------------------
NoStartAfter(P) ==
    P => \A j \in JobIds : fut[j] = "queued" => fut'[j] = "queued"

(* C1: once a job has failed no queued job is started any more, and the run *)
(* ends with an exit code other than success.  The first part is stated     *)
(* from the moment main has received the failure from future.result().      *)
C1_FailFast ==
    /\ [][NoStartAfter(Failed /= {} /\ mpc = "exit_wait")]_vars
    /\ []((mpc = "done" /\ Failed /= {}) => exitCode \notin {NoExit, success})

(* C7: once the interrupt is observed no queued job is started any more,    *)
(* and the run ends with exit code 3.                                       *)
C7_InterruptStops ==
    /\ [][NoStartAfter(intr)]_vars
    /\ []((mpc = "done" /\ intr) => exitCode = user_ctrl_c)

(* C8: when two or more jobs fail, exactly one error is reported for the    *)
(* run and the exit code is the code of that error.                         *)
C8_OneErrorReported ==
    (mpc = "done" /\ ~quiet /\ Cardinality(Failed) >= 2)
    => /\ Len(reported) = 1
       /\ exitCode = reported[1].code

(* C10: the jobs started and not yet ended are never more than the          *)
(* concurrency limit.                                                       *)
C10_BoundedConcurrency == Cardinality(Running) <= concurrency
C10_Witness ==
    /\ concurrency >= 2
    /\ Cardinality(Running) = concurrency
    /\ Queued /= {}

\* what json_save('test_report.json', output_files) writes (line 743)
Report == output_files

\* whether the triples of a tree come in the order of the catalog
InCatalogOrder(tree, tv) ==
    LET ts == tests_list_all(tree)
    IN  \A a, b \in 1..Len(ts) :
           a < b => LexLess(CatalogPos(tv, ts[a]), CatalogPos(tv, ts[b]))

(* C12: when every job has returned and was collected, the report lists     *)
(* decoders, samples and tests in the order of the catalog, whatever the    *)
(* order in which the jobs finished.                                        *)
C12_ReportInCatalogOrder ==
    mpc = "post" => InCatalogOrder(Report, test_vectors)

\* a tree read as a mapping: the order of the keys forgotten
RECURSIVE AsMapping(_)
AsMapping(d) ==
    {<<d[i].key, IF d[i].dict THEN AsMapping(d[i].val) ELSE d[i].val>> : i \in 1..Len(d)}

\* the mapping from every triple of the job list to its fingerprint
JobSet == {jobs[i] : i \in 1..Len(jobs)}
ExpectedMapping ==
    {<<d, {<<sm, {<<t, AsMapping(Fingerprint)>> :
                     t \in {x[3] : x \in {y \in JobSet : y[1] = d /\ y[2] = sm}}}>> :
              sm \in {x[2] : x \in {y \in JobSet : y[1] = d}}}>> :
        d \in {x[1] : x \in JobSet}}

(* C13: when all jobs have succeeded, the merged tree, read as a mapping,   *)
(* holds the fingerprint of every triple of the job list and nothing else,  *)
(* in whatever order the results were merged.                               *)
C13_MergedIsSelectedMapping ==
    mpc = "post" => AsMapping(output_files) = ExpectedMapping

\* results of three or more jobs were merged out of the order of the catalog
C13_Witness ==
    /\ mpc = "post"
    /\ Len(jobs) >= 3
    /\ ~InCatalogOrder(output_files, test_vectors)

----------------------------------------------------------------------------
(* One job: sigrok_cli (lines 349-457) with the sigrok-cli and 7z           *)
(* subprocesses.  Data is counted in units; a pipe holds PipeCap units.  A  *)
(* subprocess does the writes (and, for 7z, the reads) of its script in     *)
(* order and blocks on a full (or empty) pipe; 7z then reads its input to   *)
(* the end.                                                                 *)
PipeCap == 1
MaxScript == 2

RECURSIVE Scripts(_, _)
Scripts(ops, n) ==
    IF n = 0 THEN {<<>>}
    ELSE Scripts(ops, n - 1) \cup
         {Append(sc, op) : sc \in {x \in Scripts(ops, n - 1) : Len(x) = n - 1}, op \in ops}

Exited(p) == p \in {"exit0", "exitN"}

\* parser.error in sigrok_cli (lines 432, 441, 444)
PyError(code) ==
    /\ ppc' = "failed"
    /\ pcode' = code
    /\ reported' = Printed(1, code)

\* lines 360-373: Popen of sigrok-cli; an OSError reaches line 444
PySpawnSig ==
    /\ ppc = "spawn_sig"
    /\ \/ /\ sig' = "running"
          /\ ppc' = "open_sink"
          /\ UNCHANGED <<pcode, reported>>
       \/ /\ PyError(internal)
          /\ UNCHANGED sig
    /\ UNCHANGED <<selVars, jobs, sevenzip, extVars, poolVars, buf, sigScript, z7, zScript,
                   inClosed, tmp, pipe, exitCode>>

\* lines 383-403: Popen of 7z, or open() of the plain output file
PyOpenSink ==
    /\ ppc = "open_sink"
    /\ \/ /\ z7' = IF sevenzip THEN "running" ELSE "none"
          /\ ppc' = "read"
          /\ UNCHANGED <<pcode, reported>>
       \/ /\ PyError(internal)
          /\ UNCHANGED z7
    /\ UNCHANGED <<selVars, jobs, sevenzip, extVars, poolVars, buf, sig, sigScript, zScript,
                   inClosed, tmp, pipe, exitCode>>

\* lines 408-410: read() returns what the pipe holds, or nothing at the end of
\* the stream, and blocks on an empty pipe whose writer still runs
PyRead ==
    /\ ppc = "read"
    /\ \/ /\ pipe.stdout > 0
          /\ buf' = pipe.stdout
          /\ pipe' = [pipe EXCEPT !.stdout = 0]
          /\ ppc' = "write"
       \/ /\ pipe.stdout = 0
          /\ Exited(sig)
          /\ ppc' = "close"
          /\ UNCHANGED <<buf, pipe>>
    /\ UNCHANGED <<selVars, jobs, sevenzip, extVars, poolVars, pcode, sig, sigScript, z7,
                   zScript, inClosed, tmp, reported, exitCode>>

\* line 411: f.write(data) blocks while the stdin pipe of 7z is full and
\* raises BrokenPipeError, caught at line 443, when 7z has exited
PyWrite ==
    /\ ppc = "write"
    /\ IF ~sevenzip
       THEN /\ buf' = 0
            /\ ppc' = "read"
            /\ UNCHANGED <<pipe, pcode, reported>>
       ELSE IF Exited(z7)
       THEN /\ PyError(internal)
            /\ UNCHANGED <<buf, pipe>>
       ELSE /\ pipe.stdin < PipeCap
            /\ pipe' = [pipe EXCEPT !.stdin = @ + 1]
            /\ buf' = buf - 1
            /\ ppc' = IF buf = 1 THEN "read" ELSE "write"
            /\ UNCHANGED <<pcode, reported>>
    /\ UNCHANGED <<selVars, jobs, sevenzip, extVars, poolVars, sig, sigScript, z7, zScript,
                   inClosed, tmp, exitCode>>

\* lines 426-427
PyClose ==
    /\ ppc = "close"
    /\ inClosed' = sevenzip
    /\ ppc' = "wait_sig"
    /\ UNCHANGED <<selVars, jobs, sevenzip, extVars, poolVars, pcode, buf, sig, sigScript, z7,
                   zScript, tmp, pipe, reported, exitCode>>

\* lines 429-432: proc_sig.wait() and the return code
PyWaitSig ==
    /\ ppc = "wait_sig"
    /\ Exited(sig)
    /\ IF sig = "exitN"
       THEN PyError(sigrok_fail)
       ELSE /\ ppc' = IF sevenzip THEN "communicate" ELSE "returned"
            /\ UNCHANGED <<pcode, reported>>
    /\ UNCHANGED <<selVars, jobs, sevenzip, extVars, poolVars, buf, sig, sigScript, z7,
                   zScript, inClosed, tmp, pipe, exitCode>>

\* line 436: communicate() reads stdout and stderr of 7z while it waits
PyCommunicateDrain ==
    /\ ppc = "communicate"
    /\ pipe.zout + pipe.zerr > 0
    /\ pipe' = [pipe EXCEPT !.zout = 0, !.zerr = 0]
    /\ UNCHANGED <<selVars, jobs, sevenzip, extVars, poolVars, ppc, pcode, buf, sig, sigScript,
                   z7, zScript, inClosed, tmp, reported, exitCode>>

PyCommunicateOk ==
    /\ ppc = "communicate"
    /\ z7 = "exit0"
    /\ ppc' = "returned"
    /\ UNCHANGED <<selVars, jobs, sevenzip, extVars, poolVars, pcode, buf, sig, sigScript, z7,
                   zScript, inClosed, tmp, pipe, reported, exitCode>>

\* lines 437-441: the leftover .tmp is removed before parser.error
PyCommunicateFailed ==
    /\ ppc = "communicate"
    /\ z7 = "exitN"
    /\ tmp' = FALSE
    /\ PyError(internal)
    /\ UNCHANGED <<selVars, jobs, sevenzip, extVars, poolVars, buf, sig, sigScript, z7,
                   zScript, inClosed, pipe, exitCode>>

\* line 436 raises TimeoutExpired, caught at line 443
PyCommunicateTimeout ==
    /\ ppc = "communicate"
    /\ z7 = "running"
    /\ PyError(internal)
    /\ UNCHANGED <<selVars, jobs, sevenzip, extVars, poolVars, buf, sig, sigScript, z7,
                   zScript, inClosed, tmp, pipe, exitCode>>

(* sigrok-cli (stdout and stderr are pipes, lines 369-370). *)
SigWrite ==
    /\ sig = "running"
    /\ sigScript /= <<>>
    /\ IF Head(sigScript) = "out"
       THEN /\ pipe.stdout < PipeCap
            /\ pipe' = [pipe EXCEPT !.stdout = @ + 1]
       ELSE /\ pipe.stderr < PipeCap
            /\ pipe' = [pipe EXCEPT !.stderr = @ + 1]
    /\ sigScript' = Tail(sigScript)
    /\ UNCHANGED <<selVars, jobs, sevenzip, extVars, poolVars, ppc, pcode, buf, sig, z7,
                   zScript, inClosed, tmp, reported, exitCode>>

SigExit ==
    /\ sig = "running"
    /\ sigScript = <<>>
    /\ sig' \in {"exit0", "exitN"}
    /\ UNCHANGED <<selVars, jobs, sevenzip, extVars, poolVars, ppc, pcode, buf, sigScript, z7,
                   zScript, inClosed, tmp, pipe, reported, exitCode>>

(* 7z (stdin, stdout and stderr are pipes, lines 391-393).  '7z u' writes   *)
(* <archive>.tmp and renames it over the archive when it ends well.         *)
Z7Step ==
    /\ z7 = "running"
    /\ zScript /= <<>>
    /\ \/ /\ Head(zScript) = "in"
          /\ pipe.stdin > 0
          /\ pipe' = [pipe EXCEPT !.stdin = @ - 1]
          /\ tmp' = TRUE
       \/ /\ Head(zScript) = "in"
          /\ pipe.stdin = 0 /\ inClosed
          /\ UNCHANGED <<pipe, tmp>>
       \/ /\ Head(zScript) = "out"
          /\ pipe.zout < PipeCap
          /\ pipe' = [pipe EXCEPT !.zout = @ + 1]
          /\ UNCHANGED tmp
       \/ /\ Head(zScript) = "err"
          /\ pipe.zerr < PipeCap
          /\ pipe' = [pipe EXCEPT !.zerr = @ + 1]
          /\ UNCHANGED tmp
    /\ zScript' = Tail(zScript)
    /\ UNCHANGED <<selVars, jobs, sevenzip, extVars, poolVars, ppc, pcode, buf, sig, sigScript,
                   z7, inClosed, reported, exitCode>>

Z7ReadRest ==
    /\ z7 = "running"
    /\ zScript = <<>>
    /\ pipe.stdin > 0
    /\ pipe' = [pipe EXCEPT !.stdin = @ - 1]
    /\ tmp' = TRUE
    /\ UNCHANGED <<selVars, jobs, sevenzip, extVars, poolVars, ppc, pcode, buf, sig, sigScript,
                   z7, zScript, inClosed, reported, exitCode>>

Z7Exit ==
    /\ z7 = "running"
    /\ zScript = <<>>
    /\ \/ /\ pipe.stdin = 0 /\ inClosed
          /\ z7' = "exit0"
          /\ tmp' = FALSE
       \/ /\ z7' = "exitN"
          /\ UNCHANGED tmp
    /\ UNCHANGED <<selVars, jobs, sevenzip, extVars, poolVars, ppc, pcode, buf, sig, sigScript,
                   zScript, inClosed, pipe, reported, exitCode>>

InitPipe ==
    /\ test_vectors = CatalogA
    /\ values = << <<"all">> >>
    /\ jsonschema = FALSE
    /\ tests_selected = <<>>
    /\ vi = 1
    /\ rpc = "submitted"
    /\ rerr = NoError
    /\ jobs = JobList(1)
    /\ sevenzip \in BOOLEAN
    /\ concurrency = 1
    /\ fut = <<"running">>
    /\ jcode = <<NoExit>>
    /\ mpc = "collect"
    /\ yielded = {}
    /\ output_files = <<>>
    /\ intr = FALSE
    /\ quiet = FALSE
    /\ ppc = "spawn_sig"
    /\ pcode = NoExit
    /\ buf = 0
    /\ sig = "none"
    /\ sigScript \in Scripts({"out", "err"}, MaxScript)
    /\ z7 = "none"
    /\ zScript \in IF sevenzip THEN Scripts({"in", "out", "err"}, MaxScript) ELSE {<<>>}
    /\ inClosed = FALSE
    /\ tmp = FALSE
    /\ pipe = NoPipes
    /\ reported = <<>>
    /\ exitCode = NoExit
    /\ ExtIdle

NextPipe ==
    \/ PySpawnSig
    \/ PyOpenSink
    \/ PyRead
    \/ PyWrite
    \/ PyClose
    \/ PyWaitSig
    \/ PyCommunicateDrain
    \/ PyCommunicateOk
    \/ PyCommunicateFailed
    \/ PyCommunicateTimeout
    \/ SigWrite
    \/ SigExit
    \/ Z7Step
    \/ Z7ReadRest
    \/ Z7Exit

(* Every step that can be taken is taken in the end: Python and the two     *)
(* subprocesses are scheduled by the operating system, and a subprocess     *)
(* that is not blocked on a pipe goes on to its exit.                       *)
SpecPipe == InitPipe /\ [][NextPipe]_vars /\ WF_vars(NextPipe)

JobEnded == ppc \in {"returned", "failed"}

(* C6: every started job ends, with a result or a reported failure,         *)
(* whatever the subprocesses write to their pipes.                          *)
C6_JobEnds == <>JobEnded

(* C9: at the moment a job reports its failure, no temporary archive of the *)
(* job exists.                                                              *)
C9_NoTmpAtFailure == [][(ppc /= "failed" /\ ppc' = "failed") => ~tmp']_vars

----------------------------------------------------------------------------
(* The command line: QuietArgumentParser.parse_args (lines 163-195), then   *)
(* argparse running the actions of the options in order, then main up to    *)
(* the pool.  Only the options -l, -t and -r are kept.  An option is given  *)
(* in a spelling the scan of lines 176 and 187 compares with, or in another spelling *)
(* argparse accepts for it ('--load_tests=FILE', an abbreviation).          *)
MaxArgs == 3

LoadExact == {"-l", "--load_tests"}
SelectExact == {"-t", "--test", "-r", "--reference"}
\* the catalog in the file of the default of -l (line 613)
DefaultFile == CatalogB

LoadOptions ==
    {[opt |-> "l", sp |-> sp, val |-> c] :
        sp \in LoadExact \cup {"--load_tests="}, c \in {CatalogA, CatalogEmpty}}
TestOptions ==
    {[opt |-> "t", sp |-> sp, val |-> v] :
        sp \in {"-t", "--test", "--te"},
        v \in {<< <<"d1", Colon, "s1", Colon, "t1">> >>, << <<"all">> >>}}
ReferenceOptions ==
    {[opt |-> "r", sp |-> sp, val |-> <<>>] : sp \in {"-r", "--reference", "--ref"}}
Options == LoadOptions \cup TestOptions \cup ReferenceOptions

RECURSIVE CommandLines(_)
CommandLines(n) ==
    IF n = 0 THEN {<<>>}
    ELSE CommandLines(n - 1) \cup
         {Append(a, o) : a \in {x \in CommandLines(n - 1) : Len(x) = n - 1}, o \in Options}

Spellings(a) == {a[i].sp : i \in 1..Len(a)}
\* args.index(x)
FirstIndex(a, sp) == CHOOSE i \in 1..Len(a) : a[i].sp = sp /\ \A j \in 1..(i - 1) : a[j].sp /= sp
\* len(args) - 1 - list(reversed(args)).index(x)
LastIndex(a, sp) ==
    CHOOSE i \in 1..Len(a) : a[i].sp = sp /\ \A j \in (i + 1)..Len(a) : a[j].sp /= sp

\* the whole 'for value in values' loop of CustomTAction (lines 285-345)
RECURSIVE ResolveValues(_, _)
ResolveValues(tv, vals) ==
    IF Len(vals) = 0 THEN [err |-> NoError, sel |-> <<>>]
    ELSE LET r == ResolveValue(tv, Head(vals))
         IN  IF r.err /= NoError THEN r
             ELSE LET rest == ResolveValues(tv, Tail(vals))
                  IN  [err |-> rest.err, sel |-> r.sel \o rest.sel]

argFrame == <<values, jsonschema, vi, rpc, rerr, sevenzip, poolVars, pipeVars,
              mergeVars, verVars, refVars, pumpVars, argv>>

ArgError(code) ==
    /\ apc' = "exit"
    /\ MainError(code)

(* lines 176-193.  list(set) has the order of the hashes of the strings,    *)
(* which differs from one process to the next: arg_l[0] and arg_t_r[0] are  *)
(* any element.                                                             *)
PreScan ==
    /\ apc = "scan"
    /\ LET arg_l == Spellings(argv) \cap LoadExact
           arg_t_r == Spellings(argv) \cap SelectExact
       IN  IF arg_l = {}
           \* CustomLAction is run on the default: lines 216-223
           THEN \/ /\ test_vectors' = DefaultFile
                   /\ apc' = "parse"
                   /\ UNCHANGED <<reported, exitCode>>
                \/ /\ ArgError(internal)
                   /\ UNCHANGED test_vectors
           ELSE IF arg_t_r = {}
           THEN /\ apc' = "parse"
                /\ UNCHANGED <<test_vectors, reported, exitCode>>
           ELSE \E l0 \in arg_l, t0 \in arg_t_r :
                   IF LastIndex(argv, l0) > FirstIndex(argv, t0)
                   THEN /\ ArgError(commandline)
                        /\ UNCHANGED test_vectors
                   ELSE /\ apc' = "parse"
                        /\ UNCHANGED <<test_vectors, reported, exitCode>>
    /\ UNCHANGED <<argFrame, tests_selected, jobs, ai, seen, resolved_with>>

\* CustomLAction.__call__, line 223
ParseLoad ==
    /\ apc = "parse"
    /\ ai <= Len(argv)
    /\ argv[ai].opt = "l"
    /\ test_vectors' = argv[ai].val
    /\ ai' = ai + 1
    /\ UNCHANGED <<argFrame, tests_selected, jobs, apc, seen, resolved_with, reported,
                   exitCode>>

\* the mutually exclusive group (line 615), then CustomTAction.__call__
ParseTest ==
    /\ apc = "parse"
    /\ ai <= Len(argv)
    /\ argv[ai].opt = "t"
    /\ IF "r" \in seen
       THEN /\ ArgError(commandline)
            /\ UNCHANGED <<tests_selected, ai, seen, resolved_with>>
       ELSE IF Len(test_vectors) = 0
       THEN /\ ArgError(commandline)
            /\ tests_selected' = <<>>
            /\ UNCHANGED <<ai, seen, resolved_with>>
       ELSE LET r == IF argv[ai].val = << <<"all">> >>
                     THEN [err |-> NoError, sel |-> tests_list_all(test_vectors)]
                     ELSE ResolveValues(test_vectors, argv[ai].val)
            IN  IF r.err /= NoError
                THEN /\ ArgError(commandline)
                     /\ tests_selected' = r.sel
                     /\ UNCHANGED <<ai, seen, resolved_with>>
                ELSE /\ tests_selected' = r.sel
                     /\ resolved_with' = test_vectors
                     /\ seen' = seen \cup {"t"}
                     /\ ai' = ai + 1
                     /\ UNCHANGED <<apc, reported, exitCode>>
    /\ UNCHANGED <<argFrame, test_vectors, jobs>>

\* -r is store_true (line 617)
ParseReference ==
    /\ apc = "parse"
    /\ ai <= Len(argv)
    /\ argv[ai].opt = "r"
    /\ IF "t" \in seen
       THEN /\ ArgError(commandline)
            /\ UNCHANGED <<ai, seen>>
       ELSE /\ seen' = seen \cup {"r"}
            /\ ai' = ai + 1
            /\ UNCHANGED <<apc, reported, exitCode>>
    /\ UNCHANGED <<argFrame, test_vectors, tests_selected, jobs, resolved_with>>

\* the group is required (line 615)
ParseEnd ==
    /\ apc = "parse"
    /\ ai > Len(argv)
    /\ IF seen = {}
       THEN ArgError(commandline)
       ELSE /\ apc' = "main"
            /\ UNCHANGED <<reported, exitCode>>
    /\ UNCHANGED <<argFrame, test_vectors, tests_selected, jobs, ai, seen, resolved_with>>

InCatalog(tv, t) ==
    /\ Has(tv, t[1])
    /\ Has(Get(tv, t[1]), t[2])
    /\ Has(Get(Get(tv, t[1]), t[2]), t[3])

(* main, lines 639-663 and 696-700: test_vectors_selected is built from the *)
(* catalog as it is now, a missing key is an uncaught KeyError; in          *)
(* reference mode the job list is tests_list_all of the last load.          *)
MainJobs ==
    /\ apc = "main"
    /\ IF "t" \in seen
       THEN IF \E i \in 1..Len(tests_selected) : ~InCatalog(test_vectors, tests_selected[i])
            THEN /\ apc' = "exit"
                 /\ exitCode' = traceback
                 /\ UNCHANGED <<tests_selected, jobs, resolved_with>>
            ELSE /\ apc' = "run"
                 /\ jobs' = tests_selected
                 /\ UNCHANGED <<tests_selected, resolved_with, exitCode>>
       ELSE /\ apc' = "run"
            /\ tests_selected' = tests_list_all(test_vectors)
            /\ jobs' = tests_list_all(test_vectors)
            /\ resolved_with' = test_vectors
            /\ UNCHANGED exitCode
    /\ UNCHANGED <<argFrame, test_vectors, ai, seen, reported>>

InitArgs ==
    /\ test_vectors = <<>>
    /\ values = <<>>
    /\ jsonschema = FALSE
    /\ tests_selected = <<>>
    /\ vi = 1
    /\ rpc = "start"
    /\ rerr = NoError
    /\ jobs = <<>>
    /\ PoolIdle
    /\ JobIdle
    /\ reported = <<>>
    /\ exitCode = NoExit
    /\ argv \in CommandLines(MaxArgs)
    /\ ai = 1
    /\ apc = "scan"
    /\ seen = {}
    /\ resolved_with = <<>>
    /\ MergeIdle
    /\ VerifyIdle
    /\ RefIdle
    /\ PumpIdle

NextArgs ==
    \/ PreScan
    \/ ParseLoad
    \/ ParseTest
    \/ ParseReference
    \/ ParseEnd
    \/ MainJobs

SpecArgs == InitArgs /\ [][NextArgs]_vars

\* whether a load option stands behind a select or reference option
LoadAfterSelect ==
    \E i, j \in 1..Len(argv) : i < j /\ argv[i].opt \in {"t", "r"} /\ argv[j].opt = "l"

(* C11: when the jobs are about to run, the selection was resolved against  *)
(* the catalog the jobs run against, and that catalog holds a decoder; a    *)
(* command line with a load option behind a select or reference option      *)
(* never gets that far and ends in a usage error.                           *)
C11_ResolvedAgainstLoaded ==
    /\ apc = "run" => /\ resolved_with = test_vectors
                      /\ Len(test_vectors) > 0
                      /\ ~LoadAfterSelect
    /\ (apc = "exit" /\ LoadAfterSelect) => exitCode = commandline

----------------------------------------------------------------------------
(* dict_merge_preserve_source_order on pairs of trees.  A tree has entries  *)
(* under the keys of TreeKeys, each a leaf or a dict of leaves, MaxEntries  *)
(* entries in all at most.                                                  *)
MaxEntries == 3
TreeKeys == {"a", "b"}
LeafValues == {"u", "v"}

RECURSIVE SeqsOfKeys(_)
\* the sequences of n or fewer keys
SeqsOfKeys(n) ==
    IF n = 0 THEN {<<>>}
    ELSE SeqsOfKeys(n - 1) \cup
         {Append(ks, k) : ks \in {x \in SeqsOfKeys(n - 1) : Len(x) = n - 1},
                          k \in TreeKeys}

HasDistinctKeys(ks) == \A i, j \in 1..Len(ks) : i /= j => ks[i] /= ks[j]
KeySeqs == {ks \in SeqsOfKeys(Cardinality(TreeKeys)) : HasDistinctKeys(ks)}

FlatTrees ==
    UNION {{[i \in 1..Len(ks) |-> L(ks[i], f[i])] : f \in [1..Len(ks) -> LeafValues]}
              : ks \in KeySeqs}
EntryValues == [dict : {FALSE}, val : {<<v>> : v \in LeafValues}]
                   \cup [dict : {TRUE}, val : FlatTrees]
RECURSIVE SumLen(_)
SumLen(d) ==
    IF Len(d) = 0 THEN 0
    ELSE (IF Head(d).dict THEN Len(Head(d).val) ELSE 0) + SumLen(Tail(d))
TreeSize(d) == Len(d) + SumLen(d)
Trees ==
    {t \in UNION {{[i \in 1..Len(ks) |-> [key |-> ks[i], dict |-> f[i].dict, val |-> f[i].val]]
                      : f \in [1..Len(ks) -> EntryValues]} : ks \in KeySeqs}
        : TreeSize(t) <= MaxEntries}

mergeFrame == <<selVars, jobs, sevenzip, poolVars, pipeVars, reported, exitCode,
                argVars, verVars, refVars, pumpVars, m_source, m_add>>

\* result = dict_merge_preserve_source_order(source, add_this)
MergeCall ==
    /\ mgpc = "call"
    /\ m_result' = dict_merge_preserve_source_order(m_source, m_add)
    /\ mgpc' = "merged"
    /\ UNCHANGED <<mergeFrame, m_again>>

\* the same add_this merged once more into the result
MergeAgain ==
    /\ mgpc = "merged"
    /\ m_again' = dict_merge_preserve_source_order(m_result, m_add)
    /\ mgpc' = "again"
    /\ UNCHANGED <<mergeFrame, m_result>>

InitMerge ==
    /\ test_vectors = <<>>
    /\ values = <<>>
    /\ jsonschema = FALSE
    /\ tests_selected = <<>>
    /\ vi = 1
    /\ rpc = "start"
    /\ rerr = NoError
    /\ jobs = <<>>
    /\ PoolIdle
    /\ JobIdle
    /\ reported = <<>>
    /\ exitCode = NoExit
    /\ ArgsIdle
    /\ m_source \in Trees
    /\ m_add \in Trees
    /\ m_result = <<>>
    /\ m_again = <<>>
    /\ mgpc = "call"
    /\ VerifyIdle
    /\ RefIdle
    /\ PumpIdle

NextMerge ==
    \/ MergeCall
    \/ MergeAgain

SpecMerge == InitMerge /\ [][NextMerge]_vars

(* C14: merging a tree into itself gives the tree back, key order included, *)
(* and merging the same tree a second time into a result changes nothing.   *)
C14_MergeIdempotent ==
    /\ (mgpc /= "call" /\ m_add = m_source) => m_result = m_source
    /\ mgpc = "again" => m_again = m_result

\* a merge of two different trees that share a sub-tree, done twice
C14_Witness ==
    /\ mgpc = "again"
    /\ m_result /= m_source
    /\ m_result /= m_add
    /\ \E k \in TreeKeys :
          /\ Has(m_source, k) /\ Has(m_add, k)
          /\ IsDictAt(m_source, k) /\ IsDictAt(m_add, k)
          /\ Get(m_source, k) /= Get(m_add, k)

\* what the merge of base and overlay is to be, level by level
RECURSIVE MergeLaw(_, _, _)
MergeLaw(base, overlay, merged) ==
    LET OverlayOnly(k) == ~Has(base, k)
    IN  /\ Keys(merged) = Keys(base) \o SelectSeq(Keys(overlay), OverlayOnly)
        /\ \A i \in 1..Len(merged) :
              LET k == merged[i].key
              IN  IF Has(base, k) /\ Has(overlay, k)
                  THEN IF IsDictAt(base, k) /\ IsDictAt(overlay, k)
                       THEN /\ merged[i].dict
                            /\ MergeLaw(Get(base, k), Get(overlay, k), merged[i].val)
                       ELSE merged[i] = overlay[IndexOf(overlay, k)]
                  ELSE IF Has(base, k)
                  THEN merged[i] = base[IndexOf(base, k)]
                  ELSE merged[i] = overlay[IndexOf(overlay, k)]

(* C15: at every level the keys of the merged tree are the keys of the base *)
(* in their order, then the keys only the overlay has in the order of the   *)
(* overlay; under a key of both stands the merge of the two sub-trees, or   *)
(* the value of the overlay when one of the two is no sub-tree.             *)
C15_MergeKeepsBaseOrder ==
    mgpc /= "call" => MergeLaw(m_source, m_add, m_result)

\* a shared sub-tree is merged, a shared leaf replaced and a key appended
C15_Witness ==
    /\ mgpc = "merged"
    /\ \E k \in TreeKeys :
          /\ Has(m_source, k) /\ Has(m_add, k)
          /\ IsDictAt(m_source, k) /\ IsDictAt(m_add, k)
          /\ KeySet(Get(m_add, k)) \ KeySet(Get(m_source, k)) /= {}
    /\ \E k \in TreeKeys :
          /\ Has(m_source, k) /\ Has(m_add, k)
          /\ ~(IsDictAt(m_source, k) /\ IsDictAt(m_add, k))
          /\ m_source[IndexOf(m_source, k)] /= m_add[IndexOf(m_add, k)]

----------------------------------------------------------------------------
(* main after the pool in test mode (lines 742-744): the report is saved    *)
(* and compare_with_reference (lines 500-569) walks the tests of the        *)
(* output.  A size or a digest is modelled by a number of 1..MaxValue.      *)
MaxValue == 2
DigestFields == <<"crc", "blake2b", "sha256">>
FingerprintFields == <<"size">> \o DigestFields

\* the dicts with some of the four fields, in the order of the schema
RECURSIVE Records(_, _)
Records(fields, optional) ==
    IF Len(fields) = 0 THEN {<<>>}
    ELSE LET rest == Records(Tail(fields), optional)
         IN  {<<L(Head(fields), v)>> \o r : v \in 1..MaxValue, r \in rest}
                \cup (IF optional THEN rest ELSE {})
\* a test of the catalog may lack reference fields; sigrok_cli returns all four
ReferenceRecords == Records(FingerprintFields, TRUE)
GeneratedRecords == Records(FingerprintFields, FALSE)

\* for test in output[decoder][sample], of the three loops of lines 508-510
OutputTests(output) ==
    Concat([i \in 1..Len(output) |->
              Concat([j \in 1..Len(output[i].val) |->
                        [k \in 1..Len(output[i].val[j].val) |->
                           <<output[i].key, output[i].val[j].key,
                             output[i].val[j].val[k].key>>]])])

Discrepancy(t, kind, expected, got) ==
    [test |-> t, kind |-> kind, expected |-> expected, got |-> got]
\* dict.get(key): the value, or nothing
ValueOf(rec, f) == IF Has(rec, f) THEN Get(rec, f) ELSE <<>>

\* lines 550-560: the three digest checks, each on its own
DigestMismatch(t, ref_data, gen_data, f) ==
    IF Has(ref_data, f) /\ Has(gen_data, f) /\ Get(ref_data, f) /= Get(gen_data, f)
    THEN <<Discrepancy(t, f, Get(ref_data, f), Get(gen_data, f))>>
    ELSE <<>>
DigestMismatches(t, ref_data, gen_data) ==
    Concat([i \in 1..Len(DigestFields) |-> DigestMismatch(t, ref_data, gen_data, DigestFields[i])])
SizeMismatch(t, ref_data, gen_data) ==
    <<Discrepancy(t, "size", ValueOf(ref_data, "size"), Get(gen_data, "size"))>>

\* for comparison: the digest checks chained, and the size check without
\* its continue
FailuresFirstDigestOnly(reference, output, t) ==
    LET ref_data == Get(Get(Get(reference, t[1]), t[2]), t[3])
        gen_data == Get(Get(Get(output, t[1]), t[2]), t[3])
        all == DigestMismatches(t, ref_data, gen_data)
    IN  IF ValueOf(ref_data, "size") /= Get(gen_data, "size")
        THEN SizeMismatch(t, ref_data, gen_data)
        ELSE IF Len(all) = 0 THEN all ELSE <<Head(all)>>
FailuresSizeAndDigests(reference, output, t) ==
    LET ref_data == Get(Get(Get(reference, t[1]), t[2]), t[3])
        gen_data == Get(Get(Get(output, t[1]), t[2]), t[3])
    IN  (IF ValueOf(ref_data, "size") /= Get(gen_data, "size")
         THEN SizeMismatch(t, ref_data, gen_data) ELSE <<>>)
            \o DigestMismatches(t, ref_data, gen_data)

\* lines 511-560: what one pass of the inner loop appends to test_failures
Failures(reference, output, t) ==
    IF ~Has(reference, t[1])
    THEN <<Discrepancy(t, "decoder_not_found", <<>>, <<>>)>>
    ELSE IF ~Has(Get(reference, t[1]), t[2])
    THEN <<Discrepancy(t, "sample_not_found", <<>>, <<>>)>>
    ELSE IF ~Has(Get(Get(reference, t[1]), t[2]), t[3])
    THEN <<Discrepancy(t, "test_not_found", <<>>, <<>>)>>
    ELSE LET ref_data == Get(Get(Get(reference, t[1]), t[2]), t[3])
             gen_data == Get(Get(Get(output, t[1]), t[2]), t[3])
         IN  IF ~Has(gen_data, "size")
             THEN <<Discrepancy(t, "no_size", <<>>, <<>>)>>
             ELSE IF ValueOf(ref_data, "size") /= Get(gen_data, "size")
             THEN SizeMismatch(t, ref_data, gen_data)
             ELSE DigestMismatches(t, ref_data, gen_data)

verFrame == <<selVars, jobs, sevenzip, poolVars, pipeVars, argVars, mergeVars, refVars,
              pumpVars>>

\* line 743: json_save ends in parser.error when the file cannot be written
SaveReport ==
    /\ vpc = "report"
    /\ \/ /\ vpc' = "compare"
          /\ UNCHANGED <<reported, exitCode>>
       \/ /\ vpc' = "exit"
          /\ MainError(internal)
    /\ UNCHANGED <<verFrame, test_failures, total_tests>>

\* one pass of the inner loop of compare_with_reference
CompareTest ==
    /\ vpc = "compare"
    /\ total_tests < Len(OutputTests(output_files))
    /\ total_tests' = total_tests + 1
    /\ test_failures' = test_failures
           \o Failures(test_vectors, output_files, OutputTests(output_files)[total_tests + 1])
    /\ UNCHANGED <<verFrame, vpc, reported, exitCode>>

\* lines 562-569
Verdict ==
    /\ vpc = "compare"
    /\ total_tests = Len(OutputTests(output_files))
    /\ vpc' = "done"
    /\ IF test_failures /= <<>>
       THEN MainError(test_fail)
       ELSE /\ exitCode' = success
            /\ UNCHANGED reported
    /\ UNCHANGED <<verFrame, test_failures, total_tests>>

(* The second test of the run, if there is one: its reference and what was  *)
(* generated for it.                                                        *)
FullRecord(size, crc, blake2b, sha256) ==
    <<L("size", size), L("crc", crc), L("blake2b", blake2b), L("sha256", sha256)>>
SecondTests ==
    {<<>>,
     <<FullRecord(1, 1, 1, 1), FullRecord(1, 1, 1, 1)>>,
     <<FullRecord(1, 1, 1, 1), FullRecord(1, 2, 1, 2)>>,
     <<FullRecord(1, 1, 1, 1), FullRecord(2, 1, 1, 2)>>}
CatalogOf(ref1, second) ==
    << D("d1", << D("s1", << D("t1", ref1) >>
                           \o (IF second = <<>> THEN <<>> ELSE << D("t2", second[1]) >>)) >>) >>
OutputOf(gen1, second) ==
    << D("d1", << D("s1", << D("t1", gen1) >>
                           \o (IF second = <<>> THEN <<>> ELSE << D("t2", second[2]) >>)) >>) >>

(* The state main is in at line 742 of a test run: the references passed    *)
(* json_validate with reference_required (line 653) when jsonschema is      *)
(* there, every job has returned and the results are merged.                *)
InitVerify ==
    /\ jsonschema \in BOOLEAN
    /\ \E ref1 \in ReferenceRecords, second \in SecondTests :
          /\ jsonschema => RequiredFields \subseteq KeySet(ref1)
          /\ test_vectors = CatalogOf(ref1, second)
          /\ \E gen1 \in GeneratedRecords : output_files = OutputOf(gen1, second)
    /\ values = <<>>
    /\ tests_selected = OutputTests(output_files)
    /\ vi = 1
    /\ rpc = "submitted"
    /\ rerr = NoError
    /\ jobs = tests_selected
    /\ concurrency = 1
    /\ sevenzip = FALSE
    /\ fut = [i \in 1..Len(jobs) |-> "ok"]
    /\ jcode = [i \in 1..Len(jobs) |-> NoExit]
    /\ mpc = "post"
    /\ yielded = 1..Len(jobs)
    /\ intr = FALSE
    /\ quiet = FALSE
    /\ JobIdle
    /\ reported = <<>>
    /\ exitCode = NoExit
    /\ ArgsIdle
    /\ MergeIdle
    /\ test_failures = <<>>
    /\ total_tests = 0
    /\ vpc = "report"
    /\ RefIdle
    /\ PumpIdle

NextVerify ==
    \/ SaveReport
    \/ CompareTest
    \/ Verdict

SpecVerify == InitVerify /\ [][NextVerify]_vars

\* the tests compared so far, with their reference and generated records
Compared == {OutputTests(output_files)[i] : i \in 1..total_tests}
RefOf(t) == Get(Get(Get(test_vectors, t[1]), t[2]), t[3])
GenOf(t) == Get(Get(Get(output_files, t[1]), t[2]), t[3])
FailuresOf(t) ==
    LET OfTest(f) == f.test = t
    IN  SelectSeq(test_failures, OfTest)
CountKind(t, kind) ==
    LET OfKind(f) == f.test = t /\ f.kind = kind
    IN  Len(SelectSeq(test_failures, OfKind))
SizeEqual(t) ==
    /\ Has(RefOf(t), "size")
    /\ Get(RefOf(t), "size") = Get(GenOf(t), "size")
DigestSet == {DigestFields[i] : i \in 1..Len(DigestFields)}

(* C16: for a compared test whose sizes are equal there is one discrepancy  *)
(* for each digest whose generated value differs from the value of the      *)
(* reference, naming that digest, and no other discrepancy; when every      *)
(* generated record equals its reference there is no discrepancy at all.    *)
C16_OnePerDifferingDigest ==
    /\ \A t \in Compared :
          SizeEqual(t) =>
             /\ \A f \in DigestSet :
                   Has(RefOf(t), f) =>
                      CountKind(t, f) = IF Get(RefOf(t), f) /= Get(GenOf(t), f) THEN 1 ELSE 0
             /\ \A i \in 1..Len(FailuresOf(t)) : FailuresOf(t)[i].kind \in DigestSet
    /\ (vpc = "done" /\ \A t \in Compared : RefOf(t) = GenOf(t))
          => test_failures = <<>> /\ exitCode = success

\* a test with equal sizes and two or more differing digests was compared
C16_Witness ==
    /\ vpc = "done"
    /\ \E t \in Compared :
          /\ SizeEqual(t)
          /\ Cardinality({f \in DigestSet :
                            Has(RefOf(t), f) /\ Get(RefOf(t), f) /= Get(GenOf(t), f)}) >= 2

(* C17: for a compared test whose generated size differs from the size of   *)
(* the reference there is exactly one discrepancy, the size mismatch with   *)
(* the expected and the generated size, whatever the digests are.           *)
C17_SizeMismatchAlone ==
    \A t \in Compared :
       ValueOf(RefOf(t), "size") /= Get(GenOf(t), "size") =>
          FailuresOf(t) = << [test |-> t, kind |-> "size",
                              expected |-> ValueOf(RefOf(t), "size"),
                              got |-> Get(GenOf(t), "size")] >>

\* a test whose size and whose crc both differ was compared
C17_Witness ==
    \E t \in Compared :
       /\ Has(RefOf(t), "size") /\ Get(RefOf(t), "size") /= Get(GenOf(t), "size")
       /\ Has(RefOf(t), "crc") /\ Get(RefOf(t), "crc") /= Get(GenOf(t), "crc")

(* C18: for a compared test whose sizes are equal, a digest that the        *)
(* reference or the generated record lacks is a discrepancy naming it, and  *)
(* a run over a reference that lacks one of the four fields does not end    *)
(* with no discrepancy.                                                     *)
C18_MissingDigestReported ==
    /\ \A t \in Compared :
          SizeEqual(t) =>
             \A f \in DigestSet :
                (~Has(RefOf(t), f) \/ ~Has(GenOf(t), f)) => CountKind(t, f) >= 1
    /\ (vpc = "done" /\ \E t \in Compared : ~(RequiredFields \subseteq KeySet(RefOf(t))))
          => test_failures /= <<>>

(* C19: a test run whose jobs all completed ends with success exactly when  *)
(* the verifier found no discrepancy and with exit code 1 exactly when it   *)
(* found one or more, and nothing but that verdict ends with exit code 1.   *)
C19_ExitOneIsVerdict ==
    /\ vpc = "done" => /\ exitCode = success <=> test_failures = <<>>
                       /\ exitCode = test_fail <=> test_failures /= <<>>
    /\ exitCode = test_fail => vpc = "done" /\ test_failures /= <<>>

----------------------------------------------------------------------------
(* main after the pool in reference mode (lines 715-740): the results are   *)
(* merged into the catalog, saved to <catalog>.tmp, loaded back and         *)
(* validated, and the catalog is replaced by the temporary file.            *)
\* a catalog whose first test has options, annotate, desc and an old size only
CatalogR ==
    << D("d2", << D("s1", << D("t2", << L("options", "o"), L("size", 1), L("annotate", "a"),
                                       L("desc", "x") >>),
                            L("path", "dir"),
                            D("t1", Reference) >>) >>) >>
Regenerated == <<L("size", 2), L("crc", "c2"), L("blake2b", "b2"), L("sha256", "s2")>>

\* the orders in which as_completed can yield n futures
Orders(n) == {f \in [1..n -> 1..n] : \A i, j \in 1..n : i /= j => f[i] /= f[j]}
RECURSIVE MergedResults(_, _, _)
\* lines 702-705 over the jobs ts taken in the order f, from the i-th on
MergedResults(ts, f, i) ==
    IF i = 0 THEN <<>>
    ELSE dict_merge_preserve_source_order(MergedResults(ts, f, i - 1),
                                          JobResult(ts[f[i]], Regenerated))
\* what output_files can be at line 715 of a reference run over the catalog tv
ReferenceOutputs(tv) ==
    {MergedResults(tests_list_all(tv), f, Len(tests_list_all(tv)))
        : f \in Orders(Len(tests_list_all(tv)))}

refFrame == <<selVars, jobs, sevenzip, concurrency, fut, jcode, mpc, yielded, intr, quiet,
              pipeVars, argVars, mergeVars, test_failures, total_tests, writable,
              pumpVars>>

RefError ==
    /\ vpc' = "exit"
    /\ MainError(internal)

\* line 720 with the arguments the other way round
RefMergeSwapped ==
    /\ vpc = "merge"
    /\ output_files' = dict_merge_preserve_source_order(output_files, test_vectors)
    /\ vpc' = "save"
    /\ UNCHANGED <<refFrame, reference_archive, catalog_file, temp_file, reported, exitCode>>

\* line 720
RefMerge ==
    /\ vpc = "merge"
    /\ output_files' = dict_merge_preserve_source_order(test_vectors, output_files)
    /\ vpc' = "save"
    /\ UNCHANGED <<refFrame, reference_archive, catalog_file, temp_file, reported, exitCode>>

\* line 723: json_save opens the file for writing and dumps into it
RefSave ==
    /\ vpc = "save"
    /\ \/ /\ temp_file' = Complete(output_files)
          /\ vpc' = "load"
          /\ UNCHANGED <<reported, exitCode>>
       \/ /\ temp_file' \in {temp_file, Partial}
          /\ RefError
    /\ UNCHANGED <<refFrame, reference_archive, output_files, catalog_file>>

\* line 724: json_load with reference_required
RefLoad ==
    /\ vpc = "load"
    /\ IF jsonschema /\ \E t \in AllTestCases(temp_file.data) : ~HasReference(temp_file.data, t)
       THEN RefError
       ELSE \/ /\ vpc' = "access"
               /\ UNCHANGED <<reported, exitCode>>
            \/ RefError
    /\ UNCHANGED <<refFrame, reference_archive, output_files, catalog_file, temp_file>>

\* lines 726-727
RefAccess ==
    /\ vpc = "access"
    /\ IF writable
       THEN /\ vpc' = "remove"
            /\ UNCHANGED <<reported, exitCode>>
       ELSE RefError
    /\ UNCHANGED <<refFrame, reference_archive, output_files, catalog_file, temp_file>>

\* lines 728-731
RefRemove ==
    /\ vpc = "remove"
    /\ \/ /\ catalog_file' = Missing
          /\ vpc' = "rename"
          /\ UNCHANGED <<reported, exitCode>>
       \/ /\ RefError
          /\ UNCHANGED catalog_file
    /\ UNCHANGED <<refFrame, reference_archive, output_files, temp_file>>

\* lines 733-736
RefRename ==
    /\ vpc = "rename"
    /\ \/ /\ catalog_file' = temp_file
          /\ temp_file' = Missing
          /\ vpc' = "pack"
          /\ UNCHANGED <<reported, exitCode>>
       \/ /\ RefError
          /\ UNCHANGED <<catalog_file, temp_file>>
    /\ UNCHANGED <<refFrame, reference_archive, output_files>>

\* lines 738-740: reference_pack ends in parser.error or returns
RefPack ==
    /\ vpc = "pack"
    /\ \/ /\ vpc' = "done"
          /\ exitCode' = success
          /\ reference_archive' = IF sevenzip THEN "new" ELSE reference_archive
          /\ UNCHANGED reported
       \/ /\ sevenzip
          /\ RefError
          /\ reference_archive' \in {reference_archive, "partial"}
    /\ UNCHANGED <<refFrame, output_files, catalog_file, temp_file>>

(* The state main is in at line 715 of a reference run: the catalog was     *)
(* loaded from its file, every test of it was run and the results merged.   *)
InitRef ==
    /\ test_vectors \in {CatalogA, CatalogB, CatalogR}
    /\ jsonschema \in BOOLEAN
    /\ values = <<>>
    /\ tests_selected = tests_list_all(test_vectors)
    /\ vi = 1
    /\ rpc = "submitted"
    /\ rerr = NoError
    /\ jobs = tests_selected
    /\ concurrency = 1
    /\ sevenzip \in BOOLEAN
    /\ fut = [i \in 1..Len(jobs) |-> "ok"]
    /\ jcode = [i \in 1..Len(jobs) |-> NoExit]
    /\ mpc = "post"
    /\ yielded = 1..Len(jobs)
    /\ output_files \in ReferenceOutputs(test_vectors)
    /\ intr = FALSE
    /\ quiet = FALSE
    /\ JobIdle
    /\ reported = <<>>
    /\ exitCode = NoExit
    /\ ArgsIdle
    /\ MergeIdle
    /\ test_failures = <<>>
    /\ total_tests = 0
    /\ vpc = "merge"
    /\ catalog_file = Complete(test_vectors)
    /\ temp_file \in {Missing, Partial}
    /\ writable \in BOOLEAN
    /\ reference_archive = "old"
    /\ PumpIdle

NextRef ==
    \/ RefMerge
    \/ RefSave
    \/ RefLoad
    \/ RefAccess
    \/ RefRemove
    \/ RefRename
    \/ RefPack

SpecRef == InitRef /\ [][NextRef]_vars

(* C20: at every step of the rewrite, and after a failure at any step, the  *)
(* path of the catalog holds the complete old catalog or the complete new   *)
(* one, which was validated.                                                *)
C20_CatalogOldOrNew ==
    \/ catalog_file = Complete(test_vectors)
    \/ /\ catalog_file = Complete(output_files)
       /\ vpc \in {"pack", "done", "exit"}

(* ------------------------------------------------------------------------ *)
(* SpecPump: the pump loop of sigrok_cli (lines 405-427) in two concurrent  *)
(* jobs, with the fingerprint each job accumulates and the progress counter *)
(* the jobs share.  The subprocesses succeed here; their failures are       *)
(* SpecPipe's.  A job's iteration of the loop is one step: everything it    *)
(* touches before 'with lock' is local to the job, and the block under the  *)
(* lock is atomic.                                                          *)

\* the entries of a test other than the four of the fingerprint, in order
FingerprintNames == {FingerprintFields[i] : i \in 1..Len(FingerprintFields)}
OtherEntries(test) ==
    LET NotFingerprint(e) == e.key \notin FingerprintNames
    IN  SelectSeq(test, NotFingerprint)
TestRewritten(old, new) ==
    /\ OtherEntries(new) = OtherEntries(old)
    /\ \A k \in FingerprintNames : Has(new, k) /\ Get(new, k) = Get(Regenerated, k)
SampleRewritten(old, new) ==
    /\ Keys(new) = Keys(old)
    /\ \A i \in 1..Len(old) :
          IF old[i].dict
          THEN new[i].dict /\ TestRewritten(old[i].val, new[i].val)
          ELSE new[i] = old[i]
DecoderRewritten(old, new) ==
    /\ Keys(new) = Keys(old)
    /\ \A i \in 1..Len(old) : SampleRewritten(old[i].val, new[i].val)
(* C25: the catalog built at line 720 has the decoders, samples and tests  *)
(* of the loaded catalog in the same order; a sample keeps its path, a     *)
(* test keeps every entry other than the four of the fingerprint, and      *)
(* these four are the values its job computed in this run.                 *)
C25_RewrittenKeepsCatalog ==
    vpc /= "merge" =>
        /\ Keys(output_files) = Keys(test_vectors)
        /\ \A i \in 1..Len(test_vectors) :
              DecoderRewritten(test_vectors[i].val, output_files[i].val)
        /\ catalog_file \in {Complete(test_vectors), Complete(output_files), Missing}

\* the rewritten catalog of CatalogR is in place and the run has ended well
C25_Witness ==
    /\ vpc = "done"
    /\ test_vectors = CatalogR
    /\ catalog_file = Complete(output_files)
    /\ output_files /= test_vectors


(* ------------------------------------------------------------------------ *)
(* SpecRun: a whole reference run (-r): the pool over every test of the     *)
(* catalog, followed, when main gets past the with block, by the rewrite of *)
(* the catalog and the packing of reference.7z.                             *)
(* ------------------------------------------------------------------------ *)
\* the rewrite entered whether or not main left the pool through line 713
RefBeginAnyway ==
    /\ mpc \in {"post", "done"}
    /\ vpc = "none"
    /\ vpc' = "merge"
    /\ UNCHANGED <<refFrame, reference_archive, output_files, catalog_file, temp_file,
                   reported, exitCode>>

\* lines 713-719: main left the with block without an exception
RefBegin ==
    /\ mpc = "post"
    /\ vpc = "none"
    /\ vpc' = "merge"
    /\ UNCHANGED <<refFrame, reference_archive, output_files, catalog_file, temp_file,
                   reported, exitCode>>

InitRun ==
    /\ test_vectors \in {CatalogA, CatalogR}
    /\ values = <<>>
    /\ jsonschema = FALSE
    /\ tests_selected = tests_list_all(test_vectors)
    /\ vi = 1
    /\ rpc = "submitted"
    /\ rerr = NoError
    /\ jobs = tests_selected
    /\ concurrency \in 0..MaxConcurrency
    /\ sevenzip \in BOOLEAN
    /\ fut = [i \in 1..Len(jobs) |-> "unsubmitted"]
    /\ jcode = [i \in 1..Len(jobs) |-> NoExit]
    /\ mpc = "submit"
    /\ yielded = {}
    /\ output_files = <<>>
    /\ intr = FALSE
    /\ quiet = FALSE
    /\ JobIdle
    /\ reported = <<>>
    /\ exitCode = NoExit
    /\ ArgsIdle
    /\ MergeIdle
    /\ VerifyIdle
    /\ catalog_file = Complete(test_vectors)
    /\ temp_file = Missing
    /\ writable \in BOOLEAN
    /\ reference_archive = "old"
    /\ PumpIdle

NextRun ==
    \/ PoolInvalid
    \/ Submit
    \/ \E i \in JobIds : JobStart(i)
    \/ \E i \in JobIds : JobReturns(i)
    \/ \E i \in JobIds : JobFails(i)
    \/ \E i \in JobIds : Collect(i)
    \/ CollectDone
    \/ Interrupt
    \/ InterruptExit
    \/ ExitWait
    \/ RefBegin
    \/ RefMerge
    \/ RefSave
    \/ RefLoad
    \/ RefAccess
    \/ RefRemove
    \/ RefRename
    \/ RefPack

SpecRun == InitRun /\ [][NextRun]_vars

(* C26: the catalog file and reference.7z differ from what the run found    *)
(* only when every job of the batch has returned a result and main was not  *)
(* interrupted; after a failed job or an interrupt they are as loaded.      *)
C26_RewriteOnlyAfterBatch ==
    /\ (catalog_file /= Complete(test_vectors) \/ reference_archive /= "old") =>
          /\ \A i \in JobIds : fut[i] = "ok"
          /\ yielded = JobIds
          /\ ~intr
    /\ (intr \/ Failed /= {}) =>
          /\ catalog_file = Complete(test_vectors)
          /\ reference_archive = "old"

\* the run has ended after one job failed and another returned; the catalog is as loaded
C26_Witness ==
    /\ mpc = "done"
    /\ Failed /= {}
    /\ \E i \in JobIds : fut[i] = "ok" /\ i \in yielded
    /\ exitCode \in JobErrorCodes
    /\ catalog_file = Complete(test_vectors)

(* ------------------------------------------------------------------------ *)
MaxBytes == 2
Bytes == {1, 2}
PumpJobs == {1, 2}
\* line 619: the choices of --progress; 'none' is NoProgress
Steps == {5, 10, 20, 25, 33}
NoProgress == 0

RECURSIVE SeqsUpTo(_, _)
SeqsUpTo(S, n) ==
    IF n = 0 THEN {<<>>}
    ELSE LET shorter == SeqsUpTo(S, n - 1)
         IN  shorter \cup {Append(q, b) : q \in shorter, b \in S}
Streams == SeqsUpTo(Bytes, MaxBytes)

(* zlib.crc32(data, value) continues the checksum 'value' over 'data'. The  *)
(* model keeps what the loop relies on, a checksum of CrcModulus values     *)
(* that is folded over the bytes in order; the polynomial is not modelled.  *)
CrcModulus == 256
HexBase == 16
RECURSIVE CrcFold(_, _)
CrcFold(data, value) ==
    IF data = <<>> THEN value
    ELSE CrcFold(Tail(data), (value * 3 + Head(data)) % CrcModulus)
\* zlib.crc32(data): the checksum of the chunk alone
crc32_restart(data, value) == CrcFold(data, 0)
\* line 414
crc32(data, value) == CrcFold(data, value)
\* line 451: f"{checksum:08x}", here two hexadecimal digits
CrcFormat(value) == <<(value \div HexBase) % HexBase, value % HexBase>>

(* A hashlib object holds what it was updated with; hexdigest() is a        *)
(* function of these bytes in order.                                        *)
update(hash, data) == hash \o data
RECURSIVE DigestFold(_, _, _)
DigestFold(factor, data, value) ==
    IF data = <<>> THEN value
    ELSE DigestFold(factor, Tail(data), (value * factor + Head(data)) % CrcModulus)
hexdigest(factor, hash) == DigestFold(factor, hash, 1)
Blake2bFactor == 5
Sha256Factor == 7

\* lines 446-457: the fingerprint a job returns
PumpResult(j) ==
    <<L("size", l_size[j]), L("crc", CrcFormat(checksum[j])),
      L("blake2b", hexdigest(Blake2bFactor, hash_blake2b[j])),
      L("sha256", hexdigest(Sha256Factor, hash_sha256[j]))>>

(* round(n / d) of Python 3 for n >= 0 and d > 0: the nearest integer, and  *)
(* the even one of the two when n / d lies halfway.                         *)
round(n, d) ==
    LET q == n \div d
        r == n % d
    IN  IF 2 * r < d THEN q
        ELSE IF 2 * r > d THEN q + 1
        ELSE IF q % 2 = 0 THEN q ELSE q + 1

\* lines 405 and 424: round(globals.size * globals.progress * 0.01)
Threshold(total, progress) == round(total * progress, 100)
\* floor(counter / size * 100 / step + 1) * step
NextProgressFloor(counter, total, step) ==
    (((100 * counter) \div (total * step)) + 1) * step
\* line 423: round((globals.counter / globals.size) * 100 / args.progress + 1) * args.progress
NextProgress(counter, total, step) ==
    round(100 * counter + total * step, total * step) * step

RECURSIVE SumLen2(_, _)
SumLen2(streams, js) ==
    IF js = {} THEN 0
    ELSE LET j == CHOOSE x \in js : TRUE
         IN  Len(streams[j]) + SumLen2(streams, js \ {j})

pumpFrame == <<selVars, jobs, sevenzip, poolVars, pipeVars, reported, exitCode,
               argVars, mergeVars, verVars, refVars, stream, g_size, args_progress>>

\* line 405
PumpStart(j) ==
    /\ lpc[j] = "start"
    /\ progress_treshold' = [progress_treshold EXCEPT ![j] = Threshold(g_size, g_progress)]
    /\ lpc' = [lpc EXCEPT ![j] = "loop"]
    /\ UNCHANGED <<pumpFrame, nread, l_size, checksum, hash_blake2b, hash_sha256,
                   f_sink, g_counter, g_progress, printed>>

\* lines 408-424: one iteration of the loop that read n bytes
PumpChunk(j) ==
    /\ lpc[j] = "loop"
    /\ \E n \in 1..(Len(stream[j]) - nread[j]) :
          LET data == SubSeq(stream[j], nread[j] + 1, nread[j] + n)
              counter == g_counter + Len(data)
          IN  /\ nread' = [nread EXCEPT ![j] = @ + n]
              /\ f_sink' = [f_sink EXCEPT ![j] = @ \o data]
              /\ l_size' = [l_size EXCEPT ![j] = @ + Len(data)]
              /\ checksum' = [checksum EXCEPT ![j] = crc32(data, @)]
              /\ hash_blake2b' = [hash_blake2b EXCEPT ![j] = update(@, data)]
              /\ hash_sha256' = [hash_sha256 EXCEPT ![j] = update(@, data)]
              /\ IF g_progress /= 0
                 THEN /\ g_counter' = counter
                      /\ IF counter >= progress_treshold[j]
                         THEN /\ printed' = Append(printed,
                                     [percent |-> g_progress, counter |-> counter])
                              /\ g_progress' = NextProgress(counter, g_size, args_progress)
                              /\ progress_treshold' = [progress_treshold EXCEPT ![j] =
                                     Threshold(g_size, g_progress')]
                         ELSE UNCHANGED <<printed, g_progress, progress_treshold>>
                 ELSE UNCHANGED <<g_counter, printed, g_progress, progress_treshold>>
    /\ UNCHANGED <<pumpFrame, lpc>>

\* lines 409-410 and 426-457: the read at the end of the stream, then the return
PumpEof(j) ==
    /\ lpc[j] = "loop"
    /\ nread[j] = Len(stream[j])
    /\ lpc' = [lpc EXCEPT ![j] = "returned"]
    /\ UNCHANGED <<pumpFrame, nread, l_size, checksum, hash_blake2b, hash_sha256,
                   f_sink, progress_treshold, g_counter, g_progress, printed>>

(* Lines 628-669: globals.size is the sum of the sizes the catalog gives    *)
(* for the selected tests, here the sizes of the outputs; the counter is    *)
(* only enabled with a step and a size.                                     *)
InitPump ==
    /\ test_vectors = <<>>
    /\ values = <<>>
    /\ jsonschema = FALSE
    /\ tests_selected = <<>>
    /\ vi = 1
    /\ rpc = "start"
    /\ rerr = NoError
    /\ jobs = <<>>
    /\ PoolIdle
    /\ JobIdle
    /\ reported = <<>>
    /\ exitCode = NoExit
    /\ ArgsIdle
    /\ MergeIdle
    /\ VerifyIdle
    /\ RefIdle
    /\ stream \in [PumpJobs -> Streams]
    /\ nread = [j \in PumpJobs |-> 0]
    /\ l_size = [j \in PumpJobs |-> 0]
    /\ checksum = [j \in PumpJobs |-> 0]
    /\ hash_blake2b = [j \in PumpJobs |-> <<>>]
    /\ hash_sha256 = [j \in PumpJobs |-> <<>>]
    /\ f_sink = [j \in PumpJobs |-> <<>>]
    /\ progress_treshold = [j \in PumpJobs |-> 0]
    /\ lpc = [j \in PumpJobs |-> "start"]
    /\ g_size = SumLen2(stream, PumpJobs)
    /\ g_counter = 0
    /\ args_progress \in Steps \cup {NoProgress}
    /\ g_progress = IF args_progress /= NoProgress /\ g_size > 0
                    THEN args_progress ELSE 0
    /\ printed = <<>>

NextPump ==
    \/ \E j \in PumpJobs : PumpStart(j)
    \/ \E j \in PumpJobs : PumpChunk(j)
    \/ \E j \in PumpJobs : PumpEof(j)

SpecPump == InitPump /\ [][NextPump]_vars

\* the fingerprint of a byte stream, computed over the stream as a whole
FingerprintOf(bytes) ==
    <<L("size", Len(bytes)), L("crc", CrcFormat(CrcFold(bytes, 0))),
      L("blake2b", hexdigest(Blake2bFactor, bytes)),
      L("sha256", hexdigest(Sha256Factor, bytes))>>

(* C21: the sink of a job holds the bytes read so far in order and size is  *)
(* their number; the fingerprint a returned job gives is the fingerprint of *)
(* the stream of its decode tool, whatever the chunks it was read in, the   *)
(* steps of the other job and the setting of the progress counter.          *)
C21_FingerprintOfStream ==
    \A j \in PumpJobs :
        /\ f_sink[j] = SubSeq(stream[j], 1, nread[j])
        /\ l_size[j] = nread[j]
        /\ lpc[j] = "returned" =>
              /\ f_sink[j] = stream[j]
              /\ PumpResult(j) = FingerprintOf(stream[j])

(* A job has returned with the counter on; three chunks were counted, one  *)
(* of them by the other job, which stands inside its stream: the job that  *)
(* returned read its stream in two chunks.                                 *)
C21_Witness ==
    /\ lpc[1] = "returned"
    /\ Len(stream[1]) >= 2
    /\ g_progress /= 0
    /\ Len(printed) >= 3
    /\ lpc[2] = "loop"
    /\ nread[2] = 1
    /\ nread[2] < Len(stream[2])

(* C22: a progress line is printed only at or above its percentage of       *)
(* globals.size, and the percentages printed in a run strictly increase.    *)
(* The first part allows for the rounding of the threshold to whole bytes:  *)
(* a line is taken as justified when the counter is within half a byte of   *)
(* the percentage it shows.                                                 *)
C22_ProgressLines ==
    /\ \A i \in 1..Len(printed) :
          100 * printed[i].counter + 50 >= printed[i].percent * g_size
    /\ \A i \in 1..Len(printed) : \A k \in 1..Len(printed) :
          i < k => printed[i].percent < printed[k].percent

(* C23: when a line is printed with the counter at x percent, the next      *)
(* percentage is the smallest multiple of the step above x.                 *)
C23_NextMultiple ==
    [][Len(printed') > Len(printed) =>
          g_progress' = NextProgressFloor(g_counter', g_size, args_progress)]_vars

(* C24: a job that fails when its sigrok-cli has exited non-zero fails with *)
(* sigrok_fail, whatever the state of 7z; a job that fails when its         *)
(* sigrok-cli has exited with zero and its 7z non-zero fails with internal. *)
C24_FailureClass ==
    [][(ppc /= "failed" /\ ppc' = "failed") =>
          /\ sig = "exitN" => pcode' = sigrok_fail
          /\ (sig = "exit0" /\ z7 = "exitN") => pcode' = internal]_vars

====
